---- MODULE Spec2Model ----
(***************************************************************************)
(* GreenGlitch: the POST /api/generate handler (three revisions of         *)
(* route.ts are in the repository) and the Generation Console component    *)
(* (GreenGitch) that calls it.                                             *)
(*                                                                         *)
(* JavaScript values are modelled as strings; the value `undefined` (an    *)
(* absent object property, an unset environment variable, a function that  *)
(* returns nothing) is the reserved string Undefined.                      *)
(***************************************************************************)
EXTENDS Integers, Sequences, FiniteSets, TLC

\* ------------------------------------------------------------------ bounds
\* Number of POST requests the handler receives in one behaviour.
MaxRequests == 2

\* ------------------------------------------------------- JavaScript values
Undefined == "<undefined>"

\* JavaScript truthiness of a string-or-undefined value (!x is ~Truthy(x)).
Truthy(x) == x # Undefined /\ x # ""

\* Template-literal interpolation `${x}` of a string-or-undefined value.
Interpolate(x) == IF x = Undefined THEN "undefined" ELSE x

\* a || b
OrElse(a, b) == IF Truthy(a) THEN a ELSE b

\* ---------------------------------------------------- revisions of route.ts
\* "route"     src/app/api/generate/route.ts        Stability AI, DALL-E, future
\* "dalleOnly" src/unnamed/part_000 lines 1-91      DALL-E
\* "lazy"      src/unnamed/part_000 lines 94-259    DALL-E, Stability AI, future
Variants == {"route", "dalleOnly", "lazy"}

\* The providers the POST handler of a revision attempts, in program order.
Providers(v) ==
    CASE v = "route"     -> <<"Stability AI", "DALL-E">>
      [] v = "dalleOnly" -> <<"DALL-E">>
      [] v = "lazy"      -> <<"DALL-E", "Stability AI">>

\* Whether the POST handler of a revision pushes the 'Future Provider' entry.
AppendsFuture(v) == v \in {"route", "lazy"}

\* Values of an environment secret: unset, set to the empty string, set.
KeyValues == {Undefined, "", "sk-key"}

\* Module initialisation. "route" and "dalleOnly" run
\*   const openai = new OpenAI({ apiKey: process.env.OPENAI_API_KEY })
\* when the module is loaded; the OpenAI SDK's constructor throws when apiKey
\* is undefined (an empty string passes), and the route then cannot be served.
\* "lazy" constructs the client inside generateWithDallE (getOpenAIClient).
ModuleLoads(v, openaiKey) == v = "lazy" \/ openaiKey # Undefined

\* ------------------------------------------------------ provider functions
\* What the Stability AI HTTP API can answer to the fetch of
\* generateWithStabilityAI; "no_call" when the function throws before fetch.
StabilityReplies(key) ==
    IF ~Truthy(key) THEN {"no_call"}
    ELSE {"image", "http_error", "no_artifacts", "no_base64"}

\* What openai.images.generate can do; "no_call" when it is never reached.
DalleReplies(key) ==
    IF ~Truthy(key) THEN {"no_call"}
    ELSE {"image", "api_error", "api_error_no_message", "empty_data", "no_b64_json"}

Return(value) == [ok |-> TRUE, value |-> value]
Throw(message) == [ok |-> FALSE, value |-> message]

Base64Payload == "iVBORw0KGgo="
TypeErrorMessage == "Cannot read properties of undefined (reading '0')"
PropertyErrorMessage == "Cannot read properties of undefined (reading 'b64_json')"
ApiErrorMessage(reply) == IF reply = "api_error" THEN "429 Rate limit reached" ELSE ""

generateWithStabilityAI(v, key, reply) ==
    IF ~Truthy(key) THEN Throw("STABILITY_API_KEY is not configured")
    ELSE IF v = "route" THEN
        CASE reply = "http_error"   -> Throw("Stability AI error: " \o "Unauthorized")
          [] reply = "no_artifacts" -> Throw(TypeErrorMessage)
          [] reply = "no_base64"    -> Return(Undefined)
          [] OTHER                  -> Return(Base64Payload)
    ELSE
        CASE reply = "http_error"   ->
                Throw(OrElse("Stability AI error: " \o "Unauthorized",
                             "Stability AI generation failed"))
          [] reply \in {"no_artifacts", "no_base64"} ->
                Throw(OrElse("No image data received from Stability AI",
                             "Stability AI generation failed"))
          [] OTHER                  -> Return(Base64Payload)

getOpenAIClient(key) ==
    IF ~Truthy(key) THEN Throw("OPENAI_API_KEY is not configured")
    ELSE Return("client")

generateWithDallE(v, key, reply) ==
    IF v = "route" THEN
        IF ~Truthy(key) THEN Throw("OPENAI_API_KEY is not configured")
        ELSE CASE reply \in {"api_error", "api_error_no_message"} ->
                     Throw("DALL-E error: " \o ApiErrorMessage(reply))
               [] reply = "empty_data"  -> Throw("DALL-E error: " \o PropertyErrorMessage)
               [] reply = "no_b64_json" -> Return(Undefined)
               [] OTHER                 -> Return(Base64Payload)
    ELSE IF v = "dalleOnly" /\ ~Truthy(key) THEN
        Throw("OPENAI_API_KEY is not configured")
    ELSE IF v = "lazy" /\ ~getOpenAIClient(key).ok THEN
        Throw(OrElse(getOpenAIClient(key).value, "DALL-E generation failed"))
    ELSE
        CASE reply \in {"api_error", "api_error_no_message"} ->
                Throw(OrElse(ApiErrorMessage(reply), "DALL-E generation failed"))
          [] reply \in {"empty_data", "no_b64_json"} ->
                Throw(OrElse("No image data received from DALL-E",
                             "DALL-E generation failed"))
          [] OTHER -> Return(Base64Payload)

\* ------------------------------------------------------------ image entries
PlaceholderUrl == "/placeholder.svg?height=1024&width=1024"
DataUrlPrefix == "data:image/png;base64,"
FailedSuffix == " (Failed)"

\* images.push({ url: `data:image/png;base64,${image}`, provider })
SuccessEntry(name, value) ==
    [url |-> DataUrlPrefix \o Interpolate(value), provider |-> name, error |-> Undefined]

\* images.push({ url: placeholder, provider: '<name> (Failed)', error: error.message })
FailedEntry(name, message) ==
    [url |-> PlaceholderUrl, provider |-> name \o FailedSuffix, error |-> message]

\* images.push({ url: placeholder, provider: 'Future Provider' })
FutureEntry ==
    [url |-> PlaceholderUrl, provider |-> "Future Provider", error |-> Undefined]

\* One try/catch block of POST around one generateWith... call.
ProviderEntry(v, name, stabilityKey, openaiKey, reply) ==
    LET result == IF name = "DALL-E"
                  THEN generateWithDallE(v, openaiKey, reply)
                  ELSE generateWithStabilityAI(v, stabilityKey, reply)
    IN  IF result.ok THEN SuccessEntry(name, result.value)
        ELSE FailedEntry(name, result.value)

ProviderReplies(name, stabilityKey, openaiKey) ==
    IF name = "DALL-E" THEN DalleReplies(openaiKey) ELSE StabilityReplies(stabilityKey)

\* ------------------------------------------------------- requests, responses
\* A request body: text that is not JSON, the JSON value null, or a JSON
\* object whose city and issue properties are absent, empty or non-empty.
Bodies ==
    {[kind |-> "unparsable", city |-> Undefined, issue |-> Undefined],
     [kind |-> "null", city |-> Undefined, issue |-> Undefined]}
    \cup {[kind |-> "object", city |-> c, issue |-> i] :
            c \in {Undefined, "", "Tokyo"}, i \in {Undefined, "", "Typhoons"}}

\* The body once the handler has read city and issue into basePrompt, the
\* only thing it uses afterwards (no modelled outcome depends on the prompt).
ConsumedBody == [kind |-> "consumed", city |-> Undefined, issue |-> Undefined]

NoResponse ==
    [status |-> 0, json |-> FALSE, success |-> Undefined, error |-> Undefined,
     images |-> <<>>, timestamp |-> FALSE]

\* NextResponse.json(payload, { status })
JsonResponse(status, success, error, images, timestamp) ==
    [status |-> status, json |-> TRUE, success |-> success, error |-> error,
     images |-> images, timestamp |-> timestamp]

\* What the framework answers for a route whose module failed to load.
FrameworkError ==
    [status |-> 500, json |-> FALSE, success |-> Undefined, error |-> Undefined,
     images |-> <<>>, timestamp |-> FALSE]

\* if (!city || !issue) return NextResponse.json({...}, { status: 400 })
ValidationResponse(v) ==
    JsonResponse(400, IF v = "route" THEN Undefined ELSE "false",
                 "City and issue are required", <<>>, FALSE)

\* The outer catch of POST.
UnexpectedResponse(message) ==
    JsonResponse(500, "false", OrElse(message, "An unexpected error occurred"),
                 <<>>, TRUE)

\* return NextResponse.json({ success: true, images, timestamp })
SuccessResponse(images) == JsonResponse(200, "true", Undefined, images, TRUE)

NewRequest(body, origin) ==
    [body |-> body, origin |-> origin, pc |-> "json", idx |-> 0, images |-> <<>>,
     invoked |-> <<>>, settled |-> <<>>, response |-> NoResponse]

\* A request whose connection is gone: its response was consumed by the
\* console, or the console aborted or lost the fetch. What the handler still
\* does for it on the server reaches nobody.
Closed(req) == [NewRequest(ConsumedBody, req.origin) EXCEPT !.pc = "closed"]

Respond(req, response) == [req EXCEPT !.pc = "done", !.response = response]

\* POST from `await request.json()` to the first `await generateWith...`.
POSTValidate(v, openaiKey, req) ==
    IF ~ModuleLoads(v, openaiKey) THEN Respond(req, FrameworkError)
    ELSE IF req.body.kind = "unparsable"
        THEN Respond(req, UnexpectedResponse("Unexpected token in JSON"))
    ELSE IF req.body.kind = "null"
        THEN Respond(req, UnexpectedResponse("Cannot destructure property 'city' of 'body' as it is null."))
    ELSE IF ~Truthy(req.body.city) \/ ~Truthy(req.body.issue)
        THEN Respond(req, ValidationResponse(v))
    ELSE [req EXCEPT !.body = ConsumedBody, !.pc = "provider", !.idx = 1,
                     !.invoked = <<Providers(v)[1]>>]

\* POSTContinue with the remaining providers skipped once one has failed.
POSTContinue_StopsAfterFailure(v, req, entry) ==
    LET images == Append(req.images, entry)
        settled == Append(req.settled, Providers(v)[req.idx])
    IN  IF req.idx < Len(Providers(v)) /\ ~Truthy(entry.error)
        THEN [req EXCEPT !.images = images, !.settled = settled,
                         !.idx = req.idx + 1,
                         !.invoked = Append(req.invoked, Providers(v)[req.idx + 1])]
        ELSE LET all == IF AppendsFuture(v) THEN Append(images, FutureEntry) ELSE images
             IN  Respond([req EXCEPT !.images = all, !.settled = settled],
                         SuccessResponse(all))

\* POST from the settling of one provider's promise to the next await, or to
\* the response: the entry is pushed, then the next provider is called, or
\* the future placeholder is pushed and the response returned.
POSTContinue(v, req, entry) ==
    LET images == Append(req.images, entry)
        settled == Append(req.settled, Providers(v)[req.idx])
    IN  IF req.idx < Len(Providers(v))
        THEN [req EXCEPT !.images = images, !.settled = settled,
                         !.idx = req.idx + 1,
                         !.invoked = Append(req.invoked, Providers(v)[req.idx + 1])]
        ELSE LET all == IF AppendsFuture(v) THEN Append(images, FutureEntry) ELSE images
             IN  Respond([req EXCEPT !.images = all, !.settled = settled],
                         SuccessResponse(all))

\* -------------------------------------------------------------------- state
VARIABLES
    variant,            \* which revision of route.ts serves /api/generate
    STABILITY_API_KEY,  \* process.env.STABILITY_API_KEY
    OPENAI_API_KEY,     \* process.env.OPENAI_API_KEY
    requests,           \* the POST requests received so far, oldest first
    selectedCity,       \* useState("")
    selectedIssue,      \* useState("")
    generatedImages,    \* useState<GeneratedImage[]>([])
    isLoading,          \* useState(false)
    toast,              \* the last notification shown by handleGenerateImages
    call,               \* where the running handleGenerateImages is suspended
    timers              \* the armed setTimeout(() => controller.abort()) timers

env == <<variant, STABILITY_API_KEY, OPENAI_API_KEY>>
console == <<selectedCity, selectedIssue, generatedImages, isLoading, toast, call, timers>>
vars == <<variant, STABILITY_API_KEY, OPENAI_API_KEY, requests, selectedCity,
          selectedIssue, generatedImages, isLoading, toast, call, timers>>

NoToast == [title |-> "", description |-> ""]
NoCall == [phase |-> "idle", request |-> 0]

Init ==
    /\ variant \in Variants
    /\ STABILITY_API_KEY \in KeyValues
    /\ OPENAI_API_KEY \in KeyValues
    /\ requests = <<>>
    /\ selectedCity = ""
    /\ selectedIssue = ""
    /\ generatedImages = <<>>
    /\ isLoading = FALSE
    /\ toast = NoToast
    /\ call = NoCall
    /\ timers = {}

\* ----------------------------------------------------------- server actions
\* Some HTTP client posts `body` to /api/generate.
DirectPost(body) ==
    /\ Len(requests) < MaxRequests
    /\ requests' = Append(requests, NewRequest(body, "direct"))
    /\ UNCHANGED <<env, console>>

\* request.json() settles for request r.
POSTBody(r) ==
    /\ requests[r].pc = "json"
    /\ requests' = [requests EXCEPT ![r] = POSTValidate(variant, OPENAI_API_KEY, @)]
    /\ UNCHANGED <<env, console>>

\* The promise of the provider call request r awaits settles.
ProviderSettles(r) ==
    /\ requests[r].pc = "provider"
    /\ LET name == Providers(variant)[requests[r].idx]
       IN  \E reply \in ProviderReplies(name, STABILITY_API_KEY, OPENAI_API_KEY) :
             requests' = [requests EXCEPT ![r] =
                POSTContinue(variant, @,
                    ProviderEntry(variant, name, STABILITY_API_KEY, OPENAI_API_KEY, reply))]
    /\ UNCHANGED <<env, console>>

NextHandler ==
    \/ \E body \in Bodies : DirectPost(body)
    \/ \E r \in DOMAIN requests : POSTBody(r)
    \/ \E r \in DOMAIN requests : ProviderSettles(r)

SpecHandler == Init /\ [][NextHandler]_vars

\* ------------------------------------------------------ Generation Console
Cities == {"New York", "London", "Tokyo", "Mumbai"}

climateIssues(city) ==
    CASE city = "New York" -> {"Sea Level Rise", "Urban Heat Island", "Air Pollution"}
      [] city = "London"   -> {"Flooding", "Air Quality", "Heat Waves"}
      [] city = "Tokyo"    -> {"Typhoons", "Urban Flooding", "Heat Stress"}
      [] city = "Mumbai"   -> {"Monsoon Flooding", "Coastal Erosion", "Air Pollution"}

\* ButtonDisabled without the isLoading disjunct.
ButtonDisabled_IgnoresLoading(city, issue, loading) == ~Truthy(city) \/ ~Truthy(issue)

\* disabled={!selectedCity || !selectedIssue || isLoading} of the trigger button
ButtonDisabled(city, issue, loading) == ~Truthy(city) \/ ~Truthy(issue) \/ loading

\* JSON.stringify({ city: selectedCity, issue: selectedIssue })
RequestBody(city, issue) == [kind |-> "object", city |-> city, issue |-> issue]

\* response.ok
ResponseOk(response) == response.status >= 200 /\ response.status <= 299

\* successfulImages with the entries told apart by their url.
successfulImages_ByUrl(images) ==
    SelectSeq(images, LAMBDA img : img.url # PlaceholderUrl)

\* data.images.filter((img) => !img.error)
successfulImages(images) == SelectSeq(images, LAMBDA img : ~Truthy(img.error))

Toast(title, description) == [title |-> title, description |-> description]

\* The two toasts after setGeneratedImages(data.images).
ResultToast(images) ==
    IF Len(successfulImages(images)) > 0
    THEN Toast("Success", "Generated " \o ToString(Len(successfulImages(images)))
                            \o " image(s) successfully.")
    ELSE Toast("Warning", "Could not generate any images. Please try again.")

\* The catch block of handleGenerateImages.
CatchToast(name, message) ==
    IF name = "AbortError"
    THEN Toast("Timeout", "Request took too long. Please try again.")
    ELSE Toast("Error", OrElse(message, "Failed to generate images"))

\* handleGenerateImages from the parsed body to the end: what it displays and
\* the toast it shows. A body that is not JSON is the inner catch.
ProcessData(response, shown) ==
    IF ~response.json
        THEN [images |-> shown, toast |-> CatchToast("Error", "Invalid response from server")]
    ELSE IF response.success # "true"
        THEN [images |-> shown,
              toast |-> CatchToast("Error", OrElse(response.error, "Failed to generate images"))]
    ELSE [images |-> response.images, toast |-> ResultToast(response.images)]

\* SelectCity without setSelectedIssue("").
SelectCity_KeepsIssue(c) ==
    /\ selectedCity' = c
    /\ UNCHANGED <<env, requests, selectedIssue, generatedImages, isLoading, toast,
                   call, timers>>

\* onValueChange of the city Select.
SelectCity(c) ==
    /\ selectedCity' = c
    /\ selectedIssue' = ""
    /\ UNCHANGED <<env, requests, generatedImages, isLoading, toast, call, timers>>

\* onValueChange of the issue Select, whose items are climateIssues[selectedCity]
\* and which is disabled while no city is selected.
SelectIssue(i) ==
    /\ Truthy(selectedCity)
    /\ i \in climateIssues(selectedCity)
    /\ selectedIssue' = i
    /\ UNCHANGED <<env, requests, selectedCity, generatedImages, isLoading, toast, call, timers>>

\* handleGenerateImages without setGeneratedImages([]).
handleGenerateImages_KeepsList ==
    /\ ~ButtonDisabled(selectedCity, selectedIssue, isLoading)
    /\ Len(requests) < MaxRequests
    /\ isLoading' = TRUE
    /\ timers' = timers \cup {Len(requests) + 1}
    /\ requests' = Append(requests,
                          NewRequest(RequestBody(selectedCity, selectedIssue), "console"))
    /\ call' = [phase |-> "fetch", request |-> Len(requests) + 1]
    /\ UNCHANGED <<env, selectedCity, selectedIssue, toast, generatedImages>>

\* A click on the trigger button: handleGenerateImages up to `await fetch`.
handleGenerateImages ==
    /\ ~ButtonDisabled(selectedCity, selectedIssue, isLoading)
    /\ Len(requests) < MaxRequests
    /\ isLoading' = TRUE
    /\ generatedImages' = <<>>
    /\ timers' = timers \cup {Len(requests) + 1}
    /\ requests' = Append(requests,
                          NewRequest(RequestBody(selectedCity, selectedIssue), "console"))
    /\ call' = [phase |-> "fetch", request |-> Len(requests) + 1]
    /\ UNCHANGED <<env, selectedCity, selectedIssue, toast>>

\* The end of every path of handleGenerateImages: a toast, then finally.
Finish(images, t) ==
    /\ generatedImages' = images
    /\ toast' = t
    /\ isLoading' = FALSE
    /\ call' = NoCall
    /\ requests' = [requests EXCEPT ![call.request] = Closed(@)]

\* fetch rejects because the network failed: the catch block; clearTimeout
\* is skipped, so the timer stays armed.
FetchRejects ==
    /\ call.phase = "fetch"
    /\ Finish(generatedImages, CatchToast("TypeError", "Failed to fetch"))
    /\ UNCHANGED <<env, selectedCity, selectedIssue, timers>>

\* fetch resolves with the response's status line and headers: clearTimeout,
\* then `await response.text()` or `await response.json()`.
FetchResolves ==
    /\ call.phase = "fetch"
    /\ requests[call.request].pc = "done"
    /\ timers' = timers \ {call.request}
    /\ call' = [call EXCEPT !.phase =
                    IF ResponseOk(requests[call.request].response) THEN "json" ELSE "text"]
    /\ UNCHANGED <<env, requests, selectedCity, selectedIssue, generatedImages,
                   isLoading, toast>>

\* The response's body has been read to its end.
BodyArrives ==
    /\ call.phase \in {"text", "json"}
    /\ LET out == IF call.phase = "text"
                  THEN [images |-> generatedImages,
                        toast |-> CatchToast("Error", "Failed to generate images")]
                  ELSE ProcessData(requests[call.request].response, generatedImages)
       IN  Finish(out.images, out.toast)
    /\ UNCHANGED <<env, selectedCity, selectedIssue, timers>>

\* The connection breaks while the body is read: response.text() rejects into
\* the catch block, response.json() into the inner catch.
BodyFails ==
    /\ call.phase \in {"text", "json"}
    /\ Finish(generatedImages,
              IF call.phase = "text" THEN CatchToast("TypeError", "Failed to fetch")
              ELSE CatchToast("Error", "Invalid response from server"))
    /\ UNCHANGED <<env, selectedCity, selectedIssue, timers>>

\* The 60 s timer of generation g fires: controller.abort(). It rejects the
\* fetch of g with an AbortError if that fetch is still pending, and does
\* nothing to a fetch that has settled.
TimerFires(g) ==
    /\ g \in timers
    /\ timers' = timers \ {g}
    /\ IF call.phase = "fetch" /\ call.request = g
       THEN Finish(generatedImages, CatchToast("AbortError", "The operation was aborted."))
       ELSE UNCHANGED <<requests, generatedImages, isLoading, toast, call>>
    /\ UNCHANGED <<env, selectedCity, selectedIssue>>

Next ==
    \/ \E c \in Cities : SelectCity(c)
    \/ \E c \in Cities : \E i \in climateIssues(c) : SelectIssue(i)
    \/ handleGenerateImages
    \/ FetchRejects
    \/ FetchResolves
    \/ BodyArrives
    \/ BodyFails
    \/ \E g \in 1..MaxRequests : TimerFires(g)
    \/ \E r \in DOMAIN requests : POSTBody(r)
    \/ \E r \in DOMAIN requests : ProviderSettles(r)

Spec == Init /\ [][Next]_vars

\* A behaviour in which the browser and the server keep running: armed timers
\* fire, the handler's awaited promises settle, a finished response's status
\* line reaches the console. Nothing obliges the network to deliver the rest
\* of a response body.
SpecLive ==
    /\ Spec
    /\ WF_vars(\E g \in 1..MaxRequests : TimerFires(g))
    /\ WF_vars(FetchResolves)
    /\ WF_vars(\E r \in DOMAIN requests : POSTBody(r))
    /\ WF_vars(\E r \in DOMAIN requests : ProviderSettles(r))

\* ------------------------------------------------------------------- claims
\* The request passed `if (!city || !issue)` and went on to the providers.
Validated(q) == q.pc \in {"provider", "done"} /\ q.body = ConsumedBody

\* The request's body is a JSON object with a non-empty city and issue.
ValidBody(q) ==
    \/ q.body = ConsumedBody
    \/ q.body.kind = "object" /\ Truthy(q.body.city) /\ Truthy(q.body.issue)

\* The request's body has no usable city or no usable issue.
LacksCityOrIssue(q) ==
    \/ q.body.kind = "null"
    \/ q.body.kind = "object" /\ (~Truthy(q.body.city) \/ ~Truthy(q.body.issue))

Answered(q) == q.pc = "done"

\* The response was written by the POST handler (NextResponse.json).
AnsweredByHandler(q) == Answered(q) /\ q.response.json

\* The entry of provider `name` reports a failure the way the claims say.
IsFailedEntry(entry, name) ==
    /\ entry.url = PlaceholderUrl
    /\ entry.provider = name \o FailedSuffix
    /\ Truthy(entry.error)

\* C1: every 200 response of POST holds one entry per provider the handler
\* attempts, in the handler's provider order, followed by exactly one
\* 'Future Provider' placeholder entry (length = attempted providers + 1).
C1_OneEntryPerProviderThenFuture ==
    \A r \in DOMAIN requests :
        LET q == requests[r]
            P == Providers(variant)
        IN  (Answered(q) /\ q.response.status = 200) =>
              /\ Len(q.response.images) = Len(P) + 1
              /\ \A i \in DOMAIN P :
                    q.response.images[i].provider \in {P[i], P[i] \o FailedSuffix}
              /\ q.response.images[Len(P) + 1] = FutureEntry

\* C2: every request that went on to the providers is answered 200 with
\* success true, and each provider's entry is either the data URL of an image payload the
\* provider returned, with no error field, or the placeholder url with a
\* ' (Failed)' label and the error message.
C2_ProviderFailuresAbsorbed ==
    \A r \in DOMAIN requests :
        LET q == requests[r]
            P == Providers(variant)
        IN  (Answered(q) /\ Validated(q)) =>
              /\ q.response.status = 200
              /\ q.response.success = "true"
              /\ \A i \in DOMAIN P :
                    \/ q.response.images[i] = SuccessEntry(P[i], Base64Payload)
                    \/ IsFailedEntry(q.response.images[i], P[i])

\* The entries provider `name` can produce when both credentials are set.
EntriesWhenConfigured(name) ==
    {ProviderEntry(variant, name, "sk-key", "sk-key", reply) :
        reply \in ProviderReplies(name, "sk-key", "sk-key")}

KeyOf(name) == IF name = "DALL-E" THEN OPENAI_API_KEY ELSE STABILITY_API_KEY

\* C3: when a provider's credential is absent, a request with a valid body is
\* still answered 200 with that provider's entry failed (' (Failed)' label,
\* non-empty error) and every other provider's entry one it could have had
\* with the credential present.
C3_MissingCredentialNotFatal ==
    \A r \in DOMAIN requests :
        LET q == requests[r]
            P == Providers(variant)
        IN  (Answered(q) /\ ValidBody(q)) =>
              \A i \in DOMAIN P :
                 ~Truthy(KeyOf(P[i])) =>
                    /\ q.response.status = 200
                    /\ IsFailedEntry(q.response.images[i], P[i])
                    /\ \A j \in DOMAIN P \ {i} :
                          Truthy(KeyOf(P[j])) =>
                             q.response.images[j] \in EntriesWhenConfigured(P[j])

IsPrefix(s, t) == Len(s) <= Len(t) /\ \A i \in DOMAIN s : s[i] = t[i]

\* C4: the providers are called one after the other in the handler's fixed
\* order, never two at a time; a validated request that is answered has
\* called every provider exactly once, whatever the earlier ones returned;
\* the future placeholder is pushed only after every call has settled.
C4_ProvidersSequential ==
    \A r \in DOMAIN requests :
        LET q == requests[r]
            P == Providers(variant)
        IN  /\ IsPrefix(q.invoked, P)
            /\ IsPrefix(q.settled, q.invoked)
            /\ Len(q.invoked) - Len(q.settled) <= 1
            /\ (Answered(q) /\ Validated(q)) => (q.invoked = P /\ q.settled = P)
            /\ (\E i \in DOMAIN q.images : q.images[i] = FutureEntry) => q.settled = P

\* A two-provider handler answered a request whose first provider failed and
\* whose second provider succeeded.
C4_Witness ==
    \E r \in DOMAIN requests :
        /\ Answered(requests[r])
        /\ Len(requests[r].invoked) = 2
        /\ Truthy(requests[r].response.images[1].error)
        /\ ~Truthy(requests[r].response.images[2].error)

\* C5: a request whose body lacks city or issue is answered 400 by the
\* handler, and no provider is called for it.
C5_MissingFields400 ==
    \A r \in DOMAIN requests :
        LET q == requests[r]
        IN  LacksCityOrIssue(q) =>
              /\ q.invoked = <<>>
              /\ AnsweredByHandler(q) => q.response.status = 400

\* C6: every non-200 response of the handler carries success false and an error text; the
\* 400 body is {success: false, error: 'City and issue are required'}, the
\* 500 body has a timestamp too; success true comes only with 200.
C6_ErrorResponsesShape ==
    \A r \in DOMAIN requests :
        LET q == requests[r]
        IN  AnsweredByHandler(q) =>
              /\ q.response.status # 200 =>
                    q.response.success = "false" /\ Truthy(q.response.error)
              /\ q.response.status = 400 =>
                    q.response.error = "City and issue are required"
              /\ q.response.status = 500 => q.response.timestamp
              /\ q.response.success = "true" => q.response.status = 200

\* The number of displayed entries without an error field.
WithoutErrorField(images) ==
    Cardinality({i \in DOMAIN images : images[i].error = Undefined})

\* C7: when the console displays an accepted response, the toast is Success
\* with the number of entries that have no error field if there is such an
\* entry, and Warning if every entry has an error field.
C7_ToastFollowsEntries ==
    generatedImages # <<>> =>
        IF WithoutErrorField(generatedImages) > 0
        THEN toast = Toast("Success",
                           "Generated " \o ToString(WithoutErrorField(generatedImages))
                               \o " image(s) successfully.")
        ELSE toast.title = "Warning"

\* An accepted response all of whose entries failed is displayed.
C7_Witness ==
    /\ generatedImages # <<>>
    /\ WithoutErrorField(generatedImages) = 0
    /\ toast.title = "Warning"

\* C8: the displayed list is empty while loading and after a generation that
\* ended in a Timeout or Error toast; it is non-empty only when idle after a
\* generation whose response was accepted.
C8_ListOnlyFromAcceptedResponse ==
    /\ isLoading => generatedImages = <<>>
    /\ toast.title \in {"Timeout", "Error"} => generatedImages = <<>>
    /\ generatedImages # <<>> => (~isLoading /\ toast.title \in {"Success", "Warning"})

\* A second generation is loading after one that displayed images.
C8_Witness ==
    /\ Len(requests) >= 2
    /\ isLoading
    /\ toast.title = "Success"
    /\ generatedImages = <<>>

\* C9: every generation that starts loading ends loading.
C9_LoadingEnds == isLoading ~> ~isLoading

\* C10: the selected issue is empty or one of the selected city's issues; a
\* request the console sends carries a catalog city and one of its issues,
\* and no request is answered 400.
C10_SelectionConsistent ==
    /\ selectedIssue = "" \/
         (selectedCity \in Cities /\ selectedIssue \in climateIssues(selectedCity))
    /\ \A r \in DOMAIN requests :
         LET q == requests[r]
         IN  /\ q.pc = "json" =>
                   /\ q.body.kind = "object"
                   /\ q.body.city \in Cities
                   /\ q.body.issue \in climateIssues(q.body.city)
             /\ q.response.status # 400

\* A request is on its way while the user has moved on to another city.
C10_Witness ==
    \E r \in DOMAIN requests :
        /\ requests[r].pc = "json"
        /\ requests[r].body.city # selectedCity
        /\ selectedIssue = ""

\* The displayed entries that report a provider call that succeeded: the
\* label is a provider's name, without the ' (Failed)' suffix.
SucceededProviders(images) ==
    Cardinality({i \in DOMAIN images :
                    \E k \in DOMAIN Providers(variant) :
                        images[i].provider = Providers(variant)[k]})

\* C11: end to end, the number the console's Success toast reports is the
\* number of providers whose call succeeded, and when no provider succeeded
\* the console shows the Warning toast.
C11_CountIsSucceededProviders ==
    generatedImages # <<>> =>
        IF SucceededProviders(generatedImages) > 0
        THEN toast = Toast("Success",
                           "Generated " \o ToString(SucceededProviders(generatedImages))
                               \o " image(s) successfully.")
        ELSE toast.title = "Warning"

\* The requests whose connection is still open.
InFlight == {r \in DOMAIN requests : requests[r].pc # "closed"}

\* At most one request is in flight, and it is the one the running
\* handleGenerateImages awaits, which is the most recent trigger.
C12_OneInFlight ==
    /\ Cardinality(InFlight) <= 1
    /\ isLoading <=> call.phase # "idle"
    /\ call.phase # "idle" => (call.request = Len(requests) /\ InFlight = {call.request})
    /\ call.phase = "idle" => InFlight = {}

\* A step triggers a generation only with the button enabled, displays only
\* the images of the most recent trigger's response, and ends a generation
\* by Timeout only when that generation's own timer fires.
C12_Step ==
    /\ Len(requests') > Len(requests) =>
          (~isLoading /\ Truthy(selectedCity) /\ Truthy(selectedIssue))
    /\ (generatedImages' # generatedImages /\ generatedImages' # <<>>) =>
          /\ call.request = Len(requests)
          /\ generatedImages' = requests[Len(requests)].response.images
    /\ (call.phase = "fetch" /\ call'.phase = "idle" /\ toast'.title = "Timeout") =>
          (call.request \in timers /\ timers' = timers \ {call.request})

\* C12: no generation is triggered while one is loading, so at most one
\* request is in flight, the displayed results are those of the most recent
\* trigger, and a timer aborts only the request of its own generation.
C12_OneGenerationAtATime == []C12_OneInFlight /\ [][C12_Step]_vars

\* The request of a second generation is in flight while the timer of the
\* first, whose fetch failed, is still armed.
C12_Witness ==
    /\ call.phase = "fetch"
    /\ call.request = 2
    /\ 1 \in timers

====
